---- MODULE Spec2Model ----
(***************************************************************************)
(* NEUST Museum API (src/main.py, src/schemas.py): the artifact catalog    *)
(* (list, get-by-id), the account handlers (signup, signin) and the        *)
(* diagnostic endpoint, over a document store with the collections         *)
(* "artifact" and "useraccount".                                           *)
(*                                                                         *)
(* Text is a sequence of one-character strings.  An optional value         *)
(* (Python None / a value) is the empty set / a singleton.                 *)
(***************************************************************************)
EXTENDS Integers, Sequences, FiniteSets, TLC

VARIABLES
    db,           \* the storage accessor: "None" or "Database"
    artifact,     \* the artifact collection, in storage order
    useraccount,  \* the useraccount collection, in storage order
    serial,       \* TRUE when the server handles one request at a time
    pc,           \* per client: "idle", or "checked" between signup's find_one and insert
    payload,      \* per client: the SignupRequest being handled
    issued,       \* the identities signup has returned, with their credentials
    listing,      \* what db.list_collection_names() does: names or an error
    env,          \* which of DATABASE_URL, DATABASE_NAME are set
    request,      \* the handler call the latest step processed
    response      \* what that call returned

vars == <<db, artifact, useraccount, serial, pc, payload, issued, listing, env,
          request, response>>

----------------------------------------------------------------------------
(* Optional values and text helpers                                        *)

None == {}

Some(v) == {v}

Value(o) == CHOOSE v \in o : TRUE

Min(a, b) == IF a < b THEN a ELSE b

\* s[:n] for n >= 0
Take(s, n) == SubSeq(s, 1, Min(n, Len(s)))

Rep(c, n) == [i \in 1..n |-> c]

\* str.lower() on the characters the model uses
Lower(c) ==
    CASE c = "A" -> "a" [] c = "B" -> "b" [] c = "C" -> "c"
      [] c = "D" -> "d" [] c = "E" -> "e" [] c = "F" -> "f"
      [] OTHER -> c

LowerText(s) == [i \in 1..Len(s) |-> Lower(s[i])]

\* d.get(f)
Get(d, f) == IF f \in DOMAIN d THEN Some(d[f]) ELSE None

Restrict(d, S) == [f \in S |-> d[f]]

----------------------------------------------------------------------------
(* Responses                                                               *)

\* raise HTTPException(status_code, detail); queried: a storage call was made
HTTPException(status, detail, queried) ==
    [status |-> status, detail |-> detail, body |-> <<>>, queried |-> queried]

\* an exception no handler catches: the framework answers 500
InternalServerError ==
    [status |-> 500, detail |-> "Internal Server Error", body |-> <<>>, queried |-> TRUE]

\* a returned value, serialised as 200
Ok(body) == [status |-> 200, detail |-> "", body |-> body, queried |-> TRUE]

NotConfigured == HTTPException(500, "Database not configured", FALSE)

----------------------------------------------------------------------------
(* Artifact catalog                                                        *)

OidLen == 24

DefaultLimit == 50

MaxLimit == 2

HexDigits == {"0", "1", "2", "3", "4", "5", "6", "7", "8", "9",
              "a", "b", "c", "d", "e", "f", "A", "B", "C", "D", "E", "F"}

\* ObjectId(artifact_id) does not raise: 24 hexadecimal characters
ObjectIdValid(s) == Len(s) = OidLen /\ \A i \in 1..Len(s) : s[i] \in HexDigits

\* the ObjectId of a valid text, written as str() renders it (lowercase hex)
ObjectId(s) == LowerText(s)

OptionalFields == {"description", "image_url", "period", "collection", "tags"}

PublicFields == {"title"} \cup OptionalFields

\* {"$regex": q, "$options": "i"} on one text: q, as a regular expression in
\* which "." stands for any character, occurs somewhere in s, letter case ignored
RegexSearch(q, s) ==
    \E i \in 0..(Len(s) - Len(q)) :
        \A j \in 1..Len(q) : q[j] = "." \/ Lower(q[j]) = Lower(s[i + j])

\* the $regex condition on a field: absent fields do not match, an array
\* field matches when some element does
RegexField(d, f, q) ==
    /\ f \in DOMAIN d
    /\ IF f = "tags"
         THEN \E k \in 1..Len(d[f]) : RegexSearch(q, d[f][k])
         ELSE RegexSearch(q, d[f])

\* filter_query as list_artifacts builds it
filter_query(q, featured) ==
    [or       |-> IF q # None /\ Value(q) # <<>> THEN q ELSE None,
     featured |-> featured]

\* whether a document satisfies a filter_query
Matches(d, f) ==
    /\ f.or # None =>
          \/ RegexField(d, "title", Value(f.or))
          \/ RegexField(d, "description", Value(f.or))
          \/ RegexField(d, "tags", Value(f.or))
    /\ f.featured # None =>
          "featured" \in DOMAIN d /\ d["featured"] = Value(f.featured)

\* get_documents(collection, filter, limit): at most limit matching documents,
\* in storage order
get_documents(coll, f, limit) ==
    Take(SelectSeq(coll, LAMBDA d : Matches(d, f)), limit)

\* mutant: period is read from the wrong key
ShapeWrongKey(d) ==
    [id          |-> d["_id"],
     title       |-> Get(d, "title"),
     description |-> Get(d, "description"),
     image_url   |-> Get(d, "image_url"),
     period      |-> Get(d, "collection"),
     collection  |-> Get(d, "collection"),
     tags        |-> Get(d, "tags")]

\* the PublicArtifact(...) keyword arguments built from a document
Shape(d) ==
    [id          |-> d["_id"],
     title       |-> Get(d, "title"),
     description |-> Get(d, "description"),
     image_url   |-> Get(d, "image_url"),
     period      |-> Get(d, "period"),
     collection  |-> Get(d, "collection"),
     tags        |-> Get(d, "tags")]

\* PublicArtifact validates: title is a required str
PublicArtifactValid(p) == p.title # None

\* mutant: the default is handed on instead of the caller's limit
FetchLimitDefault(limit) == DefaultLimit

\* the limit list_artifacts hands to get_documents
FetchLimit(limit) == limit

list_artifacts(q, featured, limit) ==
    IF db = "None" THEN NotConfigured
    ELSE LET docs == get_documents(artifact, filter_query(q, featured), FetchLimit(limit))
             results == [i \in 1..Len(docs) |-> Shape(docs[i])]
         IN  IF \E i \in 1..Len(results) : ~PublicArtifactValid(results[i])
               THEN InternalServerError
               ELSE Ok(results)

\* db["artifact"].find_one({"_id": oid}): the first document with that id, if any
find_one_by_id(oid) ==
    LET hits == SelectSeq(artifact, LAMBDA d : d["_id"] = oid)
    IN  IF hits = <<>> THEN None ELSE Some(hits[1])

\* mutant: the id is not validated, a malformed id simply matches nothing
get_artifact_unvalidated(artifact_id) ==
    IF db = "None" THEN NotConfigured
    ELSE LET doc == IF ObjectIdValid(artifact_id)
                      THEN find_one_by_id(ObjectId(artifact_id)) ELSE None
         IN  IF doc = None THEN HTTPException(404, "Artifact not found", TRUE)
             ELSE IF ~PublicArtifactValid(Shape(Value(doc))) THEN InternalServerError
             ELSE Ok(<<Shape(Value(doc))>>)

\* mutant: the id is validated before the accessor is looked at
get_artifact_id_first(artifact_id) ==
    IF ~ObjectIdValid(artifact_id)
      THEN HTTPException(400, "Invalid artifact id", FALSE)
    ELSE IF db = "None" THEN NotConfigured
    ELSE LET doc == find_one_by_id(ObjectId(artifact_id))
         IN  IF doc = None THEN HTTPException(404, "Artifact not found", TRUE)
             ELSE IF ~PublicArtifactValid(Shape(Value(doc))) THEN InternalServerError
             ELSE Ok(<<Shape(Value(doc))>>)

get_artifact(artifact_id) ==
    IF db = "None" THEN NotConfigured
    ELSE IF ~ObjectIdValid(artifact_id)
      THEN HTTPException(400, "Invalid artifact id", FALSE)
    ELSE LET doc == find_one_by_id(ObjectId(artifact_id))
         IN  IF doc = None THEN HTTPException(404, "Artifact not found", TRUE)
             ELSE IF ~PublicArtifactValid(Shape(Value(doc))) THEN InternalServerError
             ELSE Ok(<<Shape(Value(doc))>>)

----------------------------------------------------------------------------
(* Catalog: stored documents and request inputs                            *)

Clients == {"c1", "c2"}

IdA == Rep("a", OidLen)

IdB == Rep("b", OidLen)

IdC == Rep("c", OidLen)

\* a complete document; a stored document carries _id and any subset of the rest
FullDoc ==
    [_id |-> IdA, title |-> <<"A", "b">>, description |-> <<"b", ".">>,
     image_url |-> <<"u">>, period |-> <<"p">>, collection |-> <<"c">>,
     tags |-> << <<"a">>, <<"B", "a">> >>, featured |-> TRUE]

DocB ==
    [_id |-> IdB, title |-> <<"b", "a">>, description |-> <<"a", "a">>,
     image_url |-> <<"v">>, period |-> <<"p">>, collection |-> <<"c">>,
     tags |-> <<>>, featured |-> TRUE]

DocC ==
    [_id |-> IdC, title |-> <<"B">>, tags |-> << <<"a", ".">> >>, featured |-> FALSE]

StoredDocs ==
    { Restrict(FullDoc, {"_id"} \cup S) : S \in SUBSET (PublicFields \cup {"featured"}) }

ArtifactCollections ==
    {<<>>, <<DocB, DocC>>} \cup { <<d, DocB, DocC>> : d \in StoredDocs }

Queries ==
    {None, Some(<<>>), Some(<<"a">>), Some(<<"A", "B">>), Some(<<".">>),
     Some(<<"a", ".">>), Some(<<"b", "b">>)}

FeaturedArgs == {None, Some(TRUE), Some(FALSE)}

Limits == (0..MaxLimit) \cup {DefaultLimit}

ArtifactIds ==
    {IdA, IdB, Rep("A", OidLen), Rep("d", OidLen), Rep("a", OidLen - 1),
     Rep("a", OidLen + 1), Rep("g", OidLen), <<"x">>}

NoRequest == [op |-> "none"]

NoResponse == [status |-> 0, detail |-> "", body |-> <<>>, queried |-> FALSE]

\* no handler is between signup's find_one and its insert
AllIdle == \A c \in Clients : pc[c] = "idle"

\* a handler may start: always on a concurrent server, on a serial one only
\* when no other handler is running
MayStart == serial => AllIdle

----------------------------------------------------------------------------
(* Catalog actions                                                         *)

ListArtifacts(q, featured, limit) ==
    /\ MayStart
    /\ request' = [op |-> "list_artifacts", q |-> q, featured |-> featured,
                   limit |-> limit]
    /\ response' = list_artifacts(q, featured, limit)
    /\ UNCHANGED <<db, artifact, useraccount, serial, pc, payload, issued, listing, env>>

GetArtifact(artifact_id) ==
    /\ MayStart
    /\ request' = [op |-> "get_artifact", artifact_id |-> artifact_id]
    /\ response' = get_artifact(artifact_id)
    /\ UNCHANGED <<db, artifact, useraccount, serial, pc, payload, issued, listing, env>>

InitCatalog ==
    /\ \/ db = "Database" /\ artifact \in ArtifactCollections
       \/ db = "None" /\ artifact \in {<<>>, <<FullDoc, DocB, DocC>>}
    /\ useraccount = <<>>
    /\ serial = TRUE
    /\ pc = [c \in Clients |-> "idle"]
    /\ payload = [c \in Clients |-> NoRequest]
    /\ issued = {}
    /\ listing = [ok |-> TRUE, names |-> <<>>]
    /\ env = {}
    /\ request = NoRequest
    /\ response = NoResponse

NextCatalog ==
    \/ \E q \in Queries, featured \in FeaturedArgs, limit \in Limits :
          ListArtifacts(q, featured, limit)
    \/ \E artifact_id \in ArtifactIds : GetArtifact(artifact_id)

SpecCatalog == InitCatalog /\ [][NextCatalog]_vars

----------------------------------------------------------------------------
(* Accounts                                                                *)

\* the name each client signs up under
NameOf(c) == IF c = "c1" THEN "A" ELSE "B"

Emails == {"a@x.com", "b@x.com"}

Passwords == {"pw1", "wrong"}

\* hashlib.sha256(raw.encode("utf-8")).hexdigest(), on the passwords of the model
hash_password(raw) ==
    CASE raw = "pw1" ->
           "c592df4a86933b92addc9842402ddf198c638ea9be58916ee6e3734e1e3152f8"
      [] raw = "wrong" ->
           "8810ad581e59f2bc3928b261707a71308f7e139eb04820366dc4d5c18d980225"

Digits == <<"0", "1", "2", "3", "4", "5", "6", "7", "8", "9">>

\* the id the store gives the n-th document of a collection, as text
NewId(n) == Rep(Digits[(n % 10) + 1], OidLen)

\* UserAccount(name=..., email=..., password_hash=...) with the schema's defaults
UserAccount(name, email, password_hash) ==
    [name |-> name, email |-> email, password_hash |-> password_hash,
     role |-> "user", is_active |-> TRUE]

\* create_document(collection, data): the collection with the document added
\* under a fresh id
create_document(coll, data) ==
    Append(coll, [f \in {"_id"} \cup DOMAIN data |->
                     IF f = "_id" THEN NewId(Len(coll) + 1) ELSE data[f]])

\* db["useraccount"].find_one({key: value}): the first match in storage order
find_one(coll, key, value) ==
    LET hits == SelectSeq(coll, LAMBDA d : d[key] = value)
    IN  IF hits = <<>> THEN None ELSE Some(hits[1])

\* mutant: the existence check looks the account up by name
signup_existing_by_name(p) == find_one(useraccount, "name", p.name)

\* mutant: the existence check finds nothing
signup_existing_none(p) == None

\* signup: existing = db["useraccount"].find_one({"email": payload.email})
signup_existing(p) == find_one(useraccount, "email", p.email)

\* mutant: an unknown email is told apart from a wrong password
signin_leaky(email, password) ==
    IF db = "None" THEN NotConfigured
    ELSE LET user == find_one(useraccount, "email", email)
         IN  IF user = None THEN HTTPException(404, "User not found", TRUE)
             ELSE IF Value(user)["password_hash"] # hash_password(password)
               THEN HTTPException(401, "Invalid email or password", TRUE)
             ELSE Ok(<<[id |-> Value(user)["_id"], name |-> Value(user)["name"],
                        email |-> Value(user)["email"]]>>)

signin(email, password) ==
    IF db = "None" THEN NotConfigured
    ELSE LET user == find_one(useraccount, "email", email)
         IN  IF user = None \/ Value(user)["password_hash"] # hash_password(password)
               THEN HTTPException(401, "Invalid email or password", TRUE)
               ELSE Ok(<<[id |-> Value(user)["_id"], name |-> Value(user)["name"],
                          email |-> Value(user)["email"]]>>)

\* signup up to the existence check (find_one and the duplicate-email error)
SignupCheck(c, name, email, password) ==
    LET p == [name |-> name, email |-> email, password |-> password]
    IN  /\ pc[c] = "idle"
        /\ MayStart
        /\ request' = [op |-> "signup", step |-> "check", name |-> name,
                       email |-> email, password |-> password]
        /\ IF db = "None"
             THEN response' = NotConfigured /\ UNCHANGED <<pc, payload>>
             ELSE IF signup_existing(p) # None
               THEN /\ response' = HTTPException(400, "Email already registered", TRUE)
                    /\ UNCHANGED <<pc, payload>>
               ELSE /\ response' = NoResponse
                    /\ pc' = [pc EXCEPT ![c] = "checked"]
                    /\ payload' = [payload EXCEPT ![c] = p]
        /\ UNCHANGED <<db, artifact, useraccount, serial, issued, listing, env>>

\* signup from the insert on (hash, create_document, the returned identity)
SignupInsert(c) ==
    LET p == payload[c]
        ua == UserAccount(p.name, p.email, hash_password(p.password))
        new_id == NewId(Len(useraccount) + 1)
    IN  /\ pc[c] = "checked"
        /\ useraccount' = create_document(useraccount, ua)
        /\ request' = [op |-> "signup", step |-> "insert", name |-> p.name,
                       email |-> p.email, password |-> p.password]
        /\ response' = Ok(<<[id |-> new_id, name |-> ua.name, email |-> ua.email]>>)
        /\ issued' = issued \cup {[id |-> new_id, name |-> ua.name, email |-> ua.email,
                                   password |-> p.password]}
        /\ pc' = [pc EXCEPT ![c] = "idle"]
        /\ payload' = [payload EXCEPT ![c] = NoRequest]
        /\ UNCHANGED <<db, artifact, serial, listing, env>>

Signin(email, password) ==
    /\ MayStart
    /\ request' = [op |-> "signin", email |-> email, password |-> password]
    /\ response' = signin(email, password)
    /\ UNCHANGED <<db, artifact, useraccount, serial, pc, payload, issued, listing, env>>

----------------------------------------------------------------------------
(* Diagnostic endpoint                                                     *)

ErrorLimit == 50

CollectionsLimit == 10

MaxCollections == 12

MaxErrorLen == 52

\* an error message of n characters
ErrorText(n) == [i \in 1..n |-> Digits[(i % 10) + 1]]

\* n collection names
CollectionNames(n) == [i \in 1..n |-> <<"c", Digits[(i \div 10) + 1], Digits[(i % 10) + 1]>>]

\* mutant: the error text is rendered whole
TruncateErrorNot(e) == e

\* str(e)[:50]
TruncateError(e) == Take(e, ErrorLimit)

\* mutant: every collection name is reported
FirstCollectionsAll(names) == names

\* collections[:10]
FirstCollections(names) == Take(names, CollectionsLimit)

test_database ==
    LET database ==
            IF db # "None"
              THEN IF listing.ok
                     THEN [label |-> "Connected & Working", text |-> <<>>]
                     ELSE [label |-> "Connected but Error: ",
                           text |-> TruncateError(listing.error)]
              ELSE [label |-> "Available but not initialized", text |-> <<>>]
    IN  [status |-> 200, detail |-> "", queried |-> db # "None",
         body |-> <<[backend           |-> "Running",
                     database          |-> database,
                     database_url      |-> IF "DATABASE_URL" \in env
                                             THEN "Set" ELSE "Not Set",
                     database_name     |-> IF "DATABASE_NAME" \in env
                                             THEN "Set" ELSE "Not Set",
                     connection_status |-> IF db # "None"
                                             THEN "Connected" ELSE "Not Connected",
                     collections       |-> IF db # "None" /\ listing.ok
                                             THEN FirstCollections(listing.names)
                                             ELSE <<>>]>>]

TestDatabase ==
    /\ MayStart
    /\ request' = [op |-> "test_database"]
    /\ response' = test_database
    /\ UNCHANGED <<db, artifact, useraccount, serial, pc, payload, issued, listing, env>>

Listings ==
    { [ok |-> TRUE, names |-> CollectionNames(n)] : n \in 0..MaxCollections }
      \cup { [ok |-> FALSE, error |-> ErrorText(n)] : n \in 0..MaxErrorLen }

InitDiag ==
    /\ db \in {"None", "Database"}
    /\ listing \in Listings
    /\ env \in SUBSET {"DATABASE_URL", "DATABASE_NAME"}
    /\ artifact = <<>>
    /\ useraccount = <<>>
    /\ serial = TRUE
    /\ pc = [c \in Clients |-> "idle"]
    /\ payload = [c \in Clients |-> NoRequest]
    /\ issued = {}
    /\ request = NoRequest
    /\ response = NoResponse

NextDiag == TestDatabase

SpecDiag == InitDiag /\ [][NextDiag]_vars

----------------------------------------------------------------------------
(* The whole API                                                           *)

\* an account registered before the server started
EarlierAccount ==
    [_id |-> NewId(1), name |-> "A", email |-> "a@x.com",
     password_hash |-> hash_password("pw1"), role |-> "user", is_active |-> TRUE]

Init ==
    /\ db \in {"None", "Database"}
    /\ artifact = <<FullDoc, DocB, DocC>>
    /\ useraccount \in {<<>>, <<EarlierAccount>>}
    /\ serial \in BOOLEAN
    /\ pc = [c \in Clients |-> "idle"]
    /\ payload = [c \in Clients |-> NoRequest]
    /\ issued = {}
    /\ listing = [ok |-> TRUE, names |-> CollectionNames(2)]
    /\ env = {}
    /\ request = NoRequest
    /\ response = NoResponse

Next ==
    \/ \E c \in Clients, email \in Emails, password \in Passwords :
          SignupCheck(c, NameOf(c), email, password)
    \/ \E c \in Clients : SignupInsert(c)
    \/ \E email \in Emails, password \in Passwords : Signin(email, password)
    \/ \E limit \in {0, DefaultLimit} : ListArtifacts(None, None, limit)
    \/ \E artifact_id \in {IdA, <<"x">>} : GetArtifact(artifact_id)
    \/ TestDatabase

Spec == Init /\ [][Next]_vars

----------------------------------------------------------------------------
(* Catalog properties                                                      *)

\* the public shape a stored document should have: id as text, every field
\* the document holds, null for every field it lacks
ExpectedShape(d) ==
    [f \in {"id"} \cup PublicFields |->
        IF f = "id" THEN d["_id"] ELSE IF f \in DOMAIN d THEN Some(d[f]) ELSE None]

Stored(id) == \E k \in 1..Len(artifact) : artifact[k]["_id"] = id

DocWithId(id) == artifact[CHOOSE k \in 1..Len(artifact) : artifact[k]["_id"] = id]

\* q occurs in s as a plain substring, letter case ignored
ContainsCI(q, s) ==
    \E i \in 0..(Len(s) - Len(q)) : \A j \in 1..Len(q) : Lower(q[j]) = Lower(s[i + j])

\* the filter the list operation is said to apply
SubstringFilter(d, q, featured) ==
    /\ \/ q = None
       \/ "title" \in DOMAIN d /\ ContainsCI(Value(q), d["title"])
       \/ "description" \in DOMAIN d /\ ContainsCI(Value(q), d["description"])
       \/ "tags" \in DOMAIN d
            /\ \E k \in 1..Len(d["tags"]) : ContainsCI(Value(q), d["tags"][k])
    /\ \/ featured = None
       \/ "featured" \in DOMAIN d /\ d["featured"] = Value(featured)

\* C5, as stated: get-by-id with a malformed id always yields 400; 404 is
\* yielded exactly when the id is well-formed and no stored artifact has it;
\* a well-formed id of a stored artifact yields that artifact.
C5_Original ==
    request.op = "get_artifact" =>
        LET id == request.artifact_id
        IN  /\ ~ObjectIdValid(id) => response.status = 400
            /\ response.status = 404 <=> (ObjectIdValid(id) /\ ~Stored(LowerText(id)))
            /\ (ObjectIdValid(id) /\ Stored(LowerText(id))) =>
                  /\ response.status = 200
                  /\ response.body = <<ExpectedShape(DocWithId(LowerText(id)))>>

\* C5, amended: with the storage accessor available, a malformed id yields 400
\* "Invalid artifact id", 404 is yielded exactly when the id is well-formed and
\* no stored artifact has it, and a well-formed id of a stored artifact yields
\* that artifact when the document has a title and 500 when it has none; with
\* the accessor unavailable every id yields 500; a malformed id never yields 404.
C5_GetById ==
    request.op = "get_artifact" =>
        LET id == request.artifact_id
        IN  /\ db = "None" => response.status = 500
            /\ db = "Database" =>
                  /\ ~ObjectIdValid(id) =>
                        response.status = 400 /\ response.detail = "Invalid artifact id"
                  /\ response.status = 404 <=>
                        (ObjectIdValid(id) /\ ~Stored(LowerText(id)))
                  /\ (ObjectIdValid(id) /\ Stored(LowerText(id))) =>
                        IF "title" \in DOMAIN DocWithId(LowerText(id))
                          THEN /\ response.status = 200
                               /\ response.body = <<ExpectedShape(DocWithId(LowerText(id)))>>
                          ELSE response.status = 500

C5_Witness ==
    /\ request.op = "get_artifact"
    /\ db = "Database"
    /\ Len(request.artifact_id) = OidLen
    /\ ~ObjectIdValid(request.artifact_id)
    /\ Len(artifact) > 0
    /\ response.status = 400

C7_Original ==
    (/\ request.op = "list_artifacts"
     /\ response.status = 200
     /\ request.limit >= Len(artifact)) =>
        \A k \in 1..Len(artifact) :
            SubstringFilter(artifact[k], request.q, request.featured)
              <=> \E i \in 1..Len(response.body) :
                     response.body[i].id = artifact[k]["_id"]

----------------------------------------------------------------------------
(* Account properties                                                      *)

Registered(email) == \E k \in 1..Len(useraccount) : useraccount[k]["email"] = email

\* the email is registered and the password is that of no account under it
WrongPassword(email, password) ==
    /\ Registered(email)
    /\ \A k \in 1..Len(useraccount) :
          useraccount[k]["email"] = email =>
              useraccount[k]["password_hash"] # hash_password(password)

NoDuplicateEmails ==
    \A i, j \in 1..Len(useraccount) :
        i # j => useraccount[i]["email"] # useraccount[j]["email"]

\* C1, as stated: signup with an email that already has an account fails with
\* 400 "Email already registered" and leaves the useraccount collection as it
\* was, for any name and password.
C1_Original ==
    [][(/\ request'.op = "signup"
        /\ request'.step = "check"
        /\ Registered(request'.email)) =>
          (/\ response'.status = 400
           /\ response'.detail = "Email already registered"
           /\ useraccount' = useraccount)]_vars

\* C1, amended: with the storage accessor available, signup with an email that
\* already has an account fails with 400 "Email already registered"; with the
\* accessor unavailable it fails with 500; either way the useraccount
\* collection is left as it was, for any name and password.
C1_DuplicateEmail ==
    [][(/\ request'.op = "signup"
        /\ request'.step = "check"
        /\ Registered(request'.email)) =>
          (/\ db = "Database" =>
                /\ response'.status = 400
                /\ response'.detail = "Email already registered"
           /\ db = "None" => response'.status = 500
           /\ useraccount' = useraccount)]_vars

C1_Witness ==
    /\ request.op = "signup"
    /\ request.step = "check"
    /\ db = "Database"
    /\ Registered(request.email)
    /\ response.status = 400
    /\ Len(useraccount) = 1

C3_Original ==
    request.op = "signin" =>
        \A h \in issued :
            (h.email = request.email /\ h.password = request.password) =>
                /\ response.status = 200
                /\ response.body = <<[id |-> h.id, name |-> h.name, email |-> h.email]>>

\* C3 on a server that never overlaps requests: there the statement holds, so
\* it fails only through the overlap of C2
C3_WithoutOverlap == serial => C3_Original

\* C4, as stated: signin with a registered email and a wrong password, and
\* signin with a never-registered email, both yield 401 "Invalid email or
\* password" and neither changes stored state.
C4_Original ==
    [][(/\ request'.op = "signin"
        /\ \/ ~Registered(request'.email)
           \/ WrongPassword(request'.email, request'.password)) =>
          (/\ response'.status = 401
           /\ response'.detail = "Invalid email or password"
           /\ response'.body = <<>>
           /\ useraccount' = useraccount)]_vars

\* C4, amended: with the storage accessor available, signin with a registered
\* email and a wrong password, and signin with a never-registered email, both
\* yield 401 "Invalid email or password"; with the accessor unavailable both
\* yield 500 "Database not configured"; the response does not depend on
\* whether the account exists, and neither case changes stored state.
C4_FailedSignin ==
    [][(/\ request'.op = "signin"
        /\ \/ ~Registered(request'.email)
           \/ WrongPassword(request'.email, request'.password)) =>
          (/\ response'.status = IF db = "Database" THEN 401 ELSE 500
           /\ response'.detail = IF db = "Database" THEN "Invalid email or password"
                                                    ELSE "Database not configured"
           /\ response'.body = <<>>
           /\ useraccount' = useraccount)]_vars

C4_Witness ==
    /\ request.op = "signin"
    /\ db = "Database"
    /\ WrongPassword(request.email, request.password)
    /\ response.status = 401

\* C8: with the storage accessor unavailable, list, get-by-id, signup and
\* signin each fail with 500 "Database not configured" before any storage
\* query or insert, whatever the input.
C8_Unavailable ==
    db = "None" =>
        /\ AllIdle
        /\ issued = {}
        /\ request.op \in {"list_artifacts", "get_artifact", "signup", "signin"} =>
              /\ response.status = 500
              /\ response.detail = "Database not configured"
              /\ response.body = <<>>
              /\ ~response.queried

C8_Witness ==
    /\ db = "None"
    /\ request.op = "signup"
    /\ Registered(request.email)
    /\ response.status = 500

----------------------------------------------------------------------------
(* Diagnostic property                                                     *)

IsPrefix(p, t) == Len(p) <= Len(t) /\ \A i \in 1..Len(p) : p[i] = t[i]

\* C9: GET /test never fails: whatever the storage state, it returns the
\* fixed-shape payload, a listing failure rendered as at most the first 50
\* characters of the error message, and at most the first 10 collection names.
C9_Diagnostic ==
    request.op = "test_database" =>
        /\ response.status = 200
        /\ Len(response.body) = 1
        /\ LET r == response.body[1]
           IN  /\ DOMAIN r = {"backend", "database", "database_url", "database_name",
                              "connection_status", "collections"}
               /\ Len(r.collections) <= CollectionsLimit
               /\ Len(r.database.text) <= ErrorLimit
               /\ db = "None" =>
                     /\ r.collections = <<>>
                     /\ r.database.label = "Available but not initialized"
               /\ (db = "Database" /\ listing.ok) =>
                     /\ IsPrefix(r.collections, listing.names)
                     /\ Len(r.collections) = Min(CollectionsLimit, Len(listing.names))
                     /\ r.database.label = "Connected & Working"
               /\ (db = "Database" /\ ~listing.ok) =>
                     /\ r.collections = <<>>
                     /\ IsPrefix(r.database.text, listing.error)
                     /\ Len(r.database.text) = Min(ErrorLimit, Len(listing.error))
                     /\ r.database.label = "Connected but Error: "

C9_Witness ==
    /\ request.op = "test_database"
    /\ db = "Database"
    /\ ~listing.ok
    /\ Len(listing.error) > ErrorLimit
    /\ Len(response.body[1].database.text) = ErrorLimit

====
